---- MODULE Spec2Model ----
(***************************************************************************)
(* Violation detection of the assessment session: the session monitor of   *)
(* src/src/lib/security/monitor.ts (module state monitorState, the five    *)
(* signal handlers, logViolation, initMonitor, stopMonitor, onViolation,   *)
(* clearViolations and the query functions).                               *)
(*                                                                         *)
(* One step of the model is one synchronous piece of the single event-loop *)
(* thread: an exported function called by a client, a browser event (with  *)
(* the handler the monitor attached for it, if any), or one callback call  *)
(* made by the forEach of logViolation.  While a notification round is     *)
(* running (pc = "notify") nothing else can run.  The subscribers of Spec  *)
(* are like the ones this repository registers (TeacherForm.tsx:275, 343): *)
(* they read the monitor and return or throw; they do not call back into   *)
(* it.                                                                     *)
(*                                                                         *)
(* The warning dialog of src/src/components/SecurityWarning.tsx and the    *)
(* lockdown controller of src/src/lib/security/lockdown.ts have their own  *)
(* variables and their own specifications, SpecWarning and SpecLockdown.   *)
(* The hooks useSecurityMonitor and useViolationAlert of                   *)
(* src/src/components/TeacherForm.tsx run over the monitor in SpecHooks.   *)
(***************************************************************************)
EXTENDS Integers, Sequences, FiniteSets, TLC

\* ------------------------------------------------------------------ bounds
MaxLog == 2        \* largest length of the violation log
MaxRegs == 2       \* onViolation calls per run of SpecRegistry
MaxSubs == 1       \* onViolation calls per run of Spec

\* the inputs of the environment
Fns == {"f", "g"}                   \* the functions the clients register
Dims == {1, 2}                      \* window.innerWidth / innerHeight
Screens == {<<1, 1>>, <<2, 2>>}     \* window.screen.width / height
Times == {0, 1}                     \* the values Date.now() returns

\* ------------------------------------------------------------------- state
VARIABLES
    isActive,      \* monitorState.isActive
    violations,    \* monitorState.violations: Seq of [type, timestamp]
    callbacks,     \* monitorState.callbacks: Seq of function identities
    startTime,     \* monitorState.startTime
    listeners,     \* event names with a handler of the monitor attached
    now,           \* the last value Date.now() returned
    pc,            \* "idle", or "notify" inside the forEach of logViolation
    cur,           \* logViolation's parameter: the violation being notified
    notifyIdx,     \* forEach: next index k (1-based)
    notifyLen,     \* forEach: the length read before the loop
    preLen,        \* history: the log's length when logViolation was entered
    invoked,       \* history: functions invoked in the current/last round
    threw,         \* history: some callback of the current/last round threw
    regs,          \* history: one [fn, live] per onViolation call of a
                   \*   client (the hooks' own are in monitorHook); live is
                   \*   FALSE once the closure it returned has been called
    sigLog,        \* history: the violation-triggering signals delivered
                   \*   while active since the last clearViolations
    started,       \* history: the last of initMonitor / stopMonitor to
                   \*   return true was initMonitor
    last,          \* history: the step just taken, its inputs and result
    \* the SecurityWarning component (SecurityWarning.tsx)
    violationCount,  \* prop violationCount
    maxViolations,   \* prop maxViolations
    isOpen,          \* prop isOpen
    onForceSubmit,   \* prop onForceSubmit: a function identity or Undefined
    timeLeft,        \* the state of useState(10)
    timers,          \* the ids of the intervals that are set and not cleared
    timer,           \* the id the mounted effect got from setInterval, or 0
    ticks,           \* history: interval callbacks run since the dialog was
                     \*   last opened on the last warning
    fired,           \* history: calls of onForceSubmit made by the interval
                     \*   callback since then
    entryLeft,       \* history: timeLeft at that moment
    pressed,         \* history: "Submit Quiz Now" has called onForceSubmit
                     \*   since then and the dialog is still open on the
                     \*   last warning
    \* the lockdown controller (lockdown.ts)
    lockdownState,   \* lockdownState: [isActive, violations, startTime]
    lockListeners,   \* event names with a handler of the lockdown attached
    bodyLocked,      \* document.body.style.userSelect is 'none'
    \* the document's fullscreen state and the useLockdown hook
    fullscreenElement,  \* one of document.fullscreenElement and its three
                        \*   vendor-prefixed forms is set
    fsPending,          \* the names under which the engine has still to
                        \*   dispatch the last fullscreen change
    fsAnnounced,        \* history: an event of the last fullscreen change
                        \*   has been dispatched
    lockCall,           \* the hook's async function that is suspended at
                        \*   its await or was the last to return
    hook,               \* the hook's useState values
    \* the hooks of TeacherForm.tsx:252-388
    monitorHook,     \* per useSecurityMonitor instance: its useState values
                     \*   and the isMonitoring its mounted effects ran with
    alertTriggered,  \* useViolationAlert: the state of useState(false)
    threshold        \* useViolationAlert: its parameter

monitorVars == <<isActive, violations, callbacks, startTime>>
\* everything the monitor and its clients own
monitorAll == <<isActive, violations, callbacks, startTime, listeners, pc,
                cur, notifyIdx, notifyLen, preLen, invoked, threw, regs,
                sigLog, started>>
\* what the monitor's clients and the model's history add to monitorVars
monitorRest == <<listeners, pc, cur, notifyIdx, notifyLen, preLen, invoked,
                 threw, regs, sigLog, started>>
warningVars == <<violationCount, maxViolations, isOpen, onForceSubmit,
                 timeLeft, timers, timer, ticks, fired, entryLeft, pressed>>
lockdownVars == <<lockdownState, lockListeners, bodyLocked>>
fullscreenVars == <<fullscreenElement, fsPending, fsAnnounced, lockCall, hook>>
monitorHookVars == <<monitorHook, alertTriggered, threshold>>
vars == <<isActive, violations, callbacks, startTime, listeners, now, pc,
          cur, notifyIdx, notifyLen, preLen, invoked, threw, regs, sigLog,
          started, last, warningVars, lockdownVars, fullscreenVars,
          monitorHookVars>>

\* ----------------------------------------------------------------- helpers
Null == [type |-> "null", timestamp |-> 0]

ViolationTypes ==
    {"focus_lost", "tab_switch", "visibility_change", "fullscreen_exit",
     "window_resize"}

Violation(type, t) == [type |-> type, timestamp |-> t]

FullscreenEvents ==
    {"fullscreenchange", "webkitfullscreenchange", "mozfullscreenchange",
     "MSFullscreenChange"}

\* the listeners in the order initMonitor adds them
EventOrder ==
    <<"blur", "focus", "visibilitychange", "fullscreenchange",
      "webkitfullscreenchange", "mozfullscreenchange", "MSFullscreenChange",
      "resize">>

AllEvents == {EventOrder[i] : i \in 1..Len(EventOrder)}

\* The addEventListener calls of initMonitor that can throw: the first on
\* window (step 1, no window: server-side rendering) and the first on
\* document (step 3, a host with a window and no document).  The later calls
\* are made on an object an earlier call has already succeeded on.
FailSteps == {1, 3}

\* Array.prototype.indexOf, 1-based; 0 stands for JavaScript's -1
IndexOf(seq, x) ==
    IF \E i \in 1..Len(seq) : seq[i] = x
    THEN CHOOSE i \in 1..Len(seq) :
             seq[i] = x /\ \A j \in 1..(i - 1) : seq[j] # x
    ELSE 0

\* Array.prototype.splice(index, 1), 1-based
Splice(seq, i) == SubSeq(seq, 1, i - 1) \o SubSeq(seq, i + 1, Len(seq))

IsPrefix(s, t) == Len(s) <= Len(t) /\ SubSeq(t, 1, Len(s)) = s

Step(op, arg, ret) == [op |-> op, arg |-> arg, ret |-> ret]

SignalOps == {"blur", "focus", "visibilitychange", "fullscreenchange", "resize"}

\* Date.now() does not run backwards
Clock == {t \in Times : t >= now}

\* ----------------------------------------------------------------- queries
getViolationsInRange_Exclusive(s, e) ==
    SelectSeq(violations, LAMBDA v : v.timestamp >= s /\ v.timestamp < e)

getViolationCount(type) ==
    IF type # "undefined"
    THEN Len(SelectSeq(violations, LAMBDA v : v.type = type))
    ELSE Len(violations)

isMonitoringActive == isActive

getViolationsInRange(s, e) ==
    SelectSeq(violations, LAMBDA v : v.timestamp >= s /\ v.timestamp <= e)

getLastViolation_First ==
    IF Len(violations) > 0 THEN violations[1] ELSE Null

getLastViolation ==
    IF Len(violations) > 0 THEN violations[Len(violations)] ELSE Null

\* ---------------------------------------------------------------- handlers
\* Each handler yields the violation it hands to logViolation, or Null when
\* it returns without logging.  t is the value Date.now() returns.
handleFocusLoss_NoGuard(t) == Violation("focus_lost", t)

handleWindowResize_And(windowWidth, windowHeight, screenWidth, screenHeight, t) ==
    IF ~isActive THEN Null
    ELSE IF windowWidth > screenWidth /\ windowHeight > screenHeight
         THEN Violation("window_resize", t)
         ELSE Null

handleFocusLoss(t) ==
    IF ~isActive THEN Null ELSE Violation("focus_lost", t)

handleFocusGain(t) ==
    IF ~isActive THEN Null ELSE Null

handleVisibilityChange_Reserved(hidden, t) ==
    IF ~isActive THEN Null
    ELSE IF hidden THEN Violation("visibility_change", t) ELSE Null

handleVisibilityChange(hidden, t) ==
    IF ~isActive THEN Null
    ELSE IF hidden THEN Violation("tab_switch", t) ELSE Null

handleFullscreenChange(isFullscreen, t) ==
    IF ~isActive THEN Null
    ELSE IF ~isFullscreen THEN Violation("fullscreen_exit", t) ELSE Null

handleWindowResize(windowWidth, windowHeight, screenWidth, screenHeight, t) ==
    IF ~isActive THEN Null
    ELSE IF windowWidth > screenWidth \/ windowHeight > screenHeight
         THEN Violation("window_resize", t)
         ELSE Null

\* the forEach of logViolation is entered with the callbacks as they are now
StartRound(v) ==
    /\ invoked' = <<>>
    /\ threw' = FALSE
    /\ preLen' = Len(violations)
    /\ IF Len(callbacks) = 0
       THEN pc' = "idle" /\ cur' = Null /\ notifyIdx' = 1 /\ notifyLen' = 0
       ELSE /\ pc' = "notify"
            /\ cur' = v
            /\ notifyIdx' = 1
            /\ notifyLen' = Len(callbacks)

logViolation_NoPush(v) ==
    /\ violations' = violations
    /\ StartRound(v)

\* logViolation: push, then notify
logViolation(v) ==
    /\ violations' = Append(violations, v)
    /\ StartRound(v)

\* No round is running: the locals of the last one are gone, and the
\* history of the last round is dropped when the next step is taken.
NoRound ==
    /\ pc' = "idle"
    /\ cur' = Null
    /\ notifyIdx' = 1
    /\ notifyLen' = 0
    /\ preLen' = 0
    /\ invoked' = <<>>
    /\ threw' = FALSE

\* A browser event fired.  v is what its handler hands to logViolation
\* (Null: the handler logged nothing, or no listener of the monitor is
\* attached), t the value Date.now() returned if the handler read the clock.
\* trig: the violation the detection table gives the signal, or "none".
\* The log is capped so that the model is finite.
HandleSignal(op, arg, v, trig, t) ==
    /\ v = Null \/ Len(violations) < MaxLog
    /\ IF v = Null THEN t = now /\ now' = now ELSE now' = t
    /\ IF v # Null
       THEN logViolation(v)
       ELSE violations' = violations /\ NoRound
    /\ sigLog' = IF isActive /\ trig # "none"
                 THEN Append(sigLog, Violation(trig, t))
                 ELSE sigLog
    /\ last' = Step(op, arg, v # Null)
    /\ UNCHANGED <<isActive, callbacks, startTime, listeners, regs, started>>
    /\ UNCHANGED <<warningVars, lockdownVars>>

\* a signal that is no change of the document's fullscreen state
Handle(op, arg, v, trig, t) ==
    /\ HandleSignal(op, arg, v, trig, t)
    /\ UNCHANGED <<fullscreenVars, monitorHookVars>>

\* ------------------------------------------------------------------ events
Blur ==
    /\ pc = "idle"
    /\ \E t \in Clock :
        Handle("blur", <<>>,
               IF "blur" \in listeners THEN handleFocusLoss(t) ELSE Null,
               "focus_lost", t)

Focus ==
    /\ pc = "idle"
    /\ \E t \in Clock :
        Handle("focus", <<>>,
               IF "focus" \in listeners THEN handleFocusGain(t) ELSE Null,
               "none", t)

VisibilityChange ==
    /\ pc = "idle"
    /\ \E hidden \in BOOLEAN, t \in Clock :
        Handle("visibilitychange", <<hidden>>,
               IF "visibilitychange" \in listeners
               THEN handleVisibilityChange(hidden, t) ELSE Null,
               IF hidden THEN "tab_switch" ELSE "none", t)

\* The document entered or left fullscreen (fs is what the fullscreenElement
\* properties say afterwards); the handler is attached under four names.
FullscreenChange ==
    /\ pc = "idle"
    /\ \E fs \in BOOLEAN, t \in Clock :
        Handle("fullscreenchange", <<fs>>,
               IF FullscreenEvents \cap listeners # {}
               THEN handleFullscreenChange(fs, t) ELSE Null,
               IF fs THEN "none" ELSE "fullscreen_exit", t)

Resize ==
    /\ pc = "idle"
    /\ \E ww \in Dims, wh \in Dims, scr \in Screens, t \in Clock :
        Handle("resize", <<ww > scr[1], wh > scr[2]>>,
               IF "resize" \in listeners
               THEN handleWindowResize(ww, wh, scr[1], scr[2], t) ELSE Null,
               IF ww > scr[1] \/ wh > scr[2] THEN "window_resize"
                                              ELSE "none", t)

\* ------------------------------------------------------ notification round
AfterCallback_Abort(k, outcome) ==
    IF outcome = "throw" THEN notifyLen + 1 ELSE k + 1

\* the index the forEach continues with after callback k returned or threw
\* (the try/catch around the call swallows the exception)
AfterCallback(k, outcome) == k + 1

\* One iteration of monitorState.callbacks.forEach: index k is visited when
\* it is below the length read before the loop and still in the array.
InvokeCallback ==
    /\ pc = "notify"
    /\ \E outcome \in {"return", "throw"} :
        LET k == notifyIdx
            present == k <= Len(callbacks)
            nxt == IF present THEN AfterCallback(k, outcome) ELSE k + 1
        IN  /\ present \/ outcome = "return"
            /\ invoked' = IF present THEN Append(invoked, callbacks[k])
                                     ELSE invoked
            /\ threw' = (threw \/ (present /\ outcome = "throw"))
            /\ last' = Step("callback", <<present>>, outcome = "return")
            /\ IF nxt > notifyLen
               THEN pc' = "idle" /\ cur' = Null /\ notifyIdx' = 1
                    /\ notifyLen' = 0
               ELSE pc' = "notify" /\ cur' = cur /\ notifyIdx' = nxt
                    /\ notifyLen' = notifyLen
    /\ UNCHANGED <<monitorVars, listeners, now, preLen, regs, sigLog, started>>
    /\ UNCHANGED <<warningVars, lockdownVars, fullscreenVars, monitorHookVars>>

\* One iteration of the forEach whose callback calls stopMonitor() and
\* returns: the loop has no test of isActive, so it goes on to the next
\* index with the monitor stopped.
InvokeStoppingCallback ==
    /\ pc = "notify"
    /\ LET k == notifyIdx
           nxt == AfterCallback(k, "return")
       IN  /\ k <= Len(callbacks)
           /\ invoked' = Append(invoked, callbacks[k])
           /\ threw' = threw
           /\ last' = Step("callback", <<TRUE>>, TRUE)
           /\ IF nxt > notifyLen
              THEN pc' = "idle" /\ cur' = Null /\ notifyIdx' = 1
                   /\ notifyLen' = 0
              ELSE pc' = "notify" /\ cur' = cur /\ notifyIdx' = nxt
                   /\ notifyLen' = notifyLen
    /\ listeners' = IF isActive THEN listeners \ AllEvents ELSE listeners
    /\ isActive' = FALSE
    /\ started' = FALSE
    /\ UNCHANGED <<violations, callbacks, startTime, now, preLen, regs, sigLog>>
    /\ UNCHANGED <<warningVars, lockdownVars, fullscreenVars, monitorHookVars>>

\* -------------------------------------------------------------- operations
initMonitor_Restart(failAt, t) ==
    /\ listeners' = listeners \cup AllEvents
    /\ isActive' = TRUE
    /\ startTime' = t
    /\ UNCHANGED <<violations, callbacks>>
    /\ last' = Step("initMonitor", <<isActive>>, TRUE)

initMonitor_HalfActive(failAt, t) ==
    IF isActive
    THEN /\ UNCHANGED <<isActive, violations, callbacks, startTime, listeners>>
         /\ last' = Step("initMonitor", <<isActive>>, TRUE)
    ELSE IF failAt = 0
    THEN /\ listeners' = listeners \cup AllEvents
         /\ isActive' = TRUE
         /\ startTime' = t
         /\ UNCHANGED <<violations, callbacks>>
         /\ last' = Step("initMonitor", <<isActive>>, TRUE)
    ELSE /\ listeners' = listeners \cup {EventOrder[j] : j \in 1..(failAt - 1)}
         /\ isActive' = TRUE
         /\ UNCHANGED <<violations, callbacks, startTime>>
         /\ last' = Step("initMonitor", <<isActive>>, FALSE)

\* initMonitor on its three paths: already active; every addEventListener
\* succeeds (failAt = 0); the addEventListener of step failAt throws and the
\* catch returns false, the listeners added before it staying attached.
initMonitor(failAt, t) ==
    IF isActive
    THEN /\ UNCHANGED <<isActive, violations, callbacks, startTime, listeners>>
         /\ last' = Step("initMonitor", <<isActive>>, TRUE)
    ELSE IF failAt = 0
    THEN /\ listeners' = listeners \cup AllEvents
         /\ isActive' = TRUE
         /\ startTime' = t
         /\ UNCHANGED <<violations, callbacks>>
         /\ last' = Step("initMonitor", <<isActive>>, TRUE)
    ELSE /\ listeners' = listeners \cup {EventOrder[j] : j \in 1..(failAt - 1)}
         /\ UNCHANGED <<isActive, violations, callbacks, startTime>>
         /\ last' = Step("initMonitor", <<isActive>>, FALSE)

InitMonitor ==
    /\ pc = "idle"
    /\ \E failAt \in {0} \cup FailSteps, t \in Clock :
        /\ initMonitor(failAt, t)
        /\ IF ~isActive /\ failAt = 0 THEN now' = t ELSE t = now /\ now' = now
    /\ started' = (started \/ last'.ret)
    /\ NoRound
    /\ UNCHANGED <<regs, sigLog, warningVars, lockdownVars, fullscreenVars,
                   monitorHookVars>>

stopMonitor_ClearsLog ==
    IF ~isActive
    THEN /\ UNCHANGED <<isActive, violations, callbacks, startTime, listeners>>
         /\ last' = Step("stopMonitor", <<isActive>>, TRUE)
    ELSE /\ listeners' = listeners \ AllEvents
         /\ isActive' = FALSE
         /\ violations' = <<>>
         /\ UNCHANGED <<callbacks, startTime>>
         /\ last' = Step("stopMonitor", <<isActive>>, TRUE)

\* stopMonitor; its removeEventListener calls are made on the objects
\* initMonitor succeeded on, so its catch is not reached
stopMonitor ==
    IF ~isActive
    THEN /\ UNCHANGED <<isActive, violations, callbacks, startTime, listeners>>
         /\ last' = Step("stopMonitor", <<isActive>>, TRUE)
    ELSE /\ listeners' = listeners \ AllEvents
         /\ isActive' = FALSE
         /\ UNCHANGED <<violations, callbacks, startTime>>
         /\ last' = Step("stopMonitor", <<isActive>>, TRUE)

StopMonitor_CancelsCountdown ==
    /\ pc = "idle"
    /\ stopMonitor
    /\ started' = (started /\ ~last'.ret)
    /\ NoRound
    /\ timers' = {}
    /\ timer' = 0
    /\ UNCHANGED <<violationCount, maxViolations, isOpen, onForceSubmit,
                   timeLeft, ticks, fired, entryLeft, pressed>>
    /\ UNCHANGED <<now, regs, sigLog, lockdownVars, fullscreenVars,
                   monitorHookVars>>

StopMonitor ==
    /\ pc = "idle"
    /\ stopMonitor
    /\ started' = (started /\ ~last'.ret)
    /\ NoRound
    /\ UNCHANGED <<now, regs, sigLog, warningVars, lockdownVars, fullscreenVars,
                   monitorHookVars>>

onViolation(callback) ==
    /\ callbacks' = Append(callbacks, callback)
    /\ UNCHANGED <<isActive, violations, startTime>>

\* a client registers one of its functions fns; at most max calls per run
Subscribe(max, fns) ==
    /\ pc = "idle"
    /\ Len(regs) < max
    /\ \E f \in fns :
        /\ onViolation(f)
        /\ regs' = Append(regs, [fn |-> f, live |-> TRUE])
        /\ last' = Step("onViolation", <<f>>, TRUE)
    /\ NoRound
    /\ UNCHANGED <<listeners, now, sigLog, started, warningVars, lockdownVars,
                   fullscreenVars, monitorHookVars>>

OnViolation == Subscribe(MaxRegs, Fns)

OnViolationFew == Subscribe(MaxSubs, {"f"})

\* the closure onViolation returned for callback
unsubscribe(callback) ==
    LET index == IndexOf(callbacks, callback)
    IN  /\ callbacks' = IF index > 0 THEN Splice(callbacks, index)
                                     ELSE callbacks
        /\ UNCHANGED <<isActive, violations, startTime>>

\* a client calls the closure the i-th onViolation call returned
Unsubscribe ==
    /\ pc = "idle"
    /\ \E i \in 1..Len(regs) :
        /\ unsubscribe(regs[i].fn)
        /\ regs' = [regs EXCEPT ![i].live = FALSE]
        /\ last' = Step("unsubscribe", <<i>>, TRUE)
    /\ NoRound
    /\ UNCHANGED <<listeners, now, sigLog, started, warningVars, lockdownVars,
                   fullscreenVars, monitorHookVars>>

\* One iteration of the forEach whose callback calls the closure the i-th
\* onViolation call returned, and returns: the splice shifts the later
\* entries down while the loop goes on with the next index.
InvokeUnsubscribingCallback ==
    /\ pc = "notify"
    /\ \E i \in 1..Len(regs) :
        LET k == notifyIdx
            nxt == AfterCallback(k, "return")
        IN  /\ k <= Len(callbacks)
            /\ invoked' = Append(invoked, callbacks[k])
            /\ threw' = threw
            /\ unsubscribe(regs[i].fn)
            /\ regs' = [regs EXCEPT ![i].live = FALSE]
            /\ last' = Step("callback", <<TRUE>>, TRUE)
            /\ IF nxt > notifyLen
               THEN pc' = "idle" /\ cur' = Null /\ notifyIdx' = 1
                    /\ notifyLen' = 0
               ELSE pc' = "notify" /\ cur' = cur /\ notifyIdx' = nxt
                    /\ notifyLen' = notifyLen
    /\ UNCHANGED <<listeners, now, preLen, sigLog, started>>
    /\ UNCHANGED <<warningVars, lockdownVars, fullscreenVars, monitorHookVars>>

clearViolations_ResetsState ==
    /\ violations' = <<>>
    /\ callbacks' = <<>>
    /\ isActive' = FALSE
    /\ startTime' = 0

clearViolations ==
    /\ violations' = <<>>
    /\ UNCHANGED <<isActive, callbacks, startTime>>

ClearViolations ==
    /\ pc = "idle"
    /\ clearViolations
    /\ sigLog' = <<>>
    /\ last' = Step("clearViolations", <<Len(violations)>>, TRUE)
    /\ NoRound
    /\ UNCHANGED <<listeners, now, regs, started, warningVars, lockdownVars,
                   fullscreenVars, monitorHookVars>>

\* ================================================ the warning dialog
\* SecurityWarning.tsx.  No file of the repository renders the component,
\* so its props are inputs: a parent may re-render it with any isOpen,
\* violationCount and onForceSubmit.  One step is one synchronous piece of
\* the event loop: a render of the parent together with the commit and the
\* effects it causes, one interval callback with the updater it queues, or
\* one click on a button of the dialog.
MaxCount == 3            \* largest violationCount a parent passes
MaxThreshold == 3        \* largest maxViolations a parent passes
MaxExtraTicks == 1       \* interval callbacks run after timeLeft reached 0

CountdownStart == 10         \* useState(10)
DefaultMaxViolations == 3    \* maxViolations = 3

Undefined == "undefined"
SubmitFns == {Undefined, "s1", "s2"}     \* the values of onForceSubmit

isLastWarning == violationCount >= maxViolations

getWarningLevel_Strict(count, max) ==
    IF count > max THEN "critical"
    ELSE IF count >= max - 1 THEN "danger"
    ELSE "warning"

\* getWarningLevel, of the props it closes over
getWarningLevel(count, max) ==
    IF count >= max THEN "critical"
    ELSE IF count >= max - 1 THEN "danger"
    ELSE "warning"

EffectStarts_IgnoresOpen(open, lastWarning) == lastWarning

EffectStarts_IgnoresCount(open, lastWarning) == open

\* the condition under which the effect sets an interval
EffectStarts(open, lastWarning) == open /\ lastWarning

EffectCleanup_None(ts, t) == ts

\* the cleanup the effect returns: clearInterval(timer); an effect that set
\* no interval (t = 0) returns no cleanup
EffectCleanup(ts, t) == ts \ {t}

\* the id setInterval returns: one that names no interval of ts
SetInterval(ts) == CHOOSE i \in 1..(Cardinality(ts) + 1) : i \notin ts

\* the steps of the component and of its parent
WarningOps == {"render", "tick", "acknowledge", "submitNow"}

\* The parent renders the component with props (open, count, fn); React
\* commits and, when a dependency of the effect changed, runs the cleanup
\* of the mounted effect and then the effect.
Render ==
    \E open \in BOOLEAN, count \in 0..MaxCount, fn \in SubmitFns :
        LET lastWarning == count >= maxViolations
            rerun == <<open, lastWarning, fn>>
                         # <<isOpen, isLastWarning, onForceSubmit>>
            entering == open /\ lastWarning /\ ~(isOpen /\ isLastWarning)
            cleaned == EffectCleanup(timers, timer)
            id == SetInterval(cleaned)
        IN  /\ <<open, count, fn>> # <<isOpen, violationCount, onForceSubmit>>
            /\ isOpen' = open
            /\ violationCount' = count
            /\ onForceSubmit' = fn
            /\ IF ~rerun
               THEN UNCHANGED <<timers, timer>>
               ELSE IF EffectStarts(open, lastWarning)
                    THEN timers' = cleaned \cup {id} /\ timer' = id
                    ELSE timers' = cleaned /\ timer' = 0
            /\ ticks' = IF entering THEN 0 ELSE ticks
            /\ fired' = IF entering THEN 0 ELSE fired
            /\ entryLeft' = IF entering THEN timeLeft ELSE entryLeft
            /\ pressed' = (pressed /\ open /\ lastWarning /\ ~entering)
            /\ last' = Step("render", <<>>, rerun)
            /\ UNCHANGED <<maxViolations, timeLeft>>
    /\ UNCHANGED <<monitorAll, now, lockdownVars, fullscreenVars,
                   monitorHookVars>>

\* One callback of a live interval: setTimeLeft runs the updater on the
\* current timeLeft; at prev <= 1 the updater clears the interval, calls
\* onForceSubmit when it is defined, and returns 0.
Tick ==
    /\ ticks < CountdownStart + MaxExtraTicks
    /\ \E id \in timers :
        LET prev == timeLeft
            calls == prev <= 1 /\ onForceSubmit # Undefined
        IN  /\ timeLeft' = IF prev <= 1 THEN 0 ELSE prev - 1
            /\ timers' = IF prev <= 1 THEN timers \ {id} ELSE timers
            /\ fired' = IF calls THEN fired + 1 ELSE fired
            /\ ticks' = ticks + 1
            /\ last' = Step("tick", <<>>, calls)
    /\ UNCHANGED <<violationCount, maxViolations, isOpen, onForceSubmit,
                   timer, entryLeft, pressed>>
    /\ UNCHANGED <<monitorAll, now, lockdownVars, fullscreenVars,
                   monitorHookVars>>

Acknowledge_Clears ==
    /\ violations' = <<>>
    /\ UNCHANGED <<isActive, callbacks, startTime>>

\* what the component itself does to the monitor when "I Understand -
\* Continue Quiz" is clicked: it calls the prop onAcknowledge and nothing of
\* monitor.ts
Acknowledge == UNCHANGED monitorVars

\* a click on "I Understand - Continue Quiz", rendered while the dialog is
\* open and not on the last warning
ClickAcknowledge ==
    /\ isOpen /\ ~isLastWarning
    /\ Acknowledge
    /\ last' = Step("acknowledge", <<>>, TRUE)
    /\ UNCHANGED <<listeners, pc, cur, notifyIdx, notifyLen, preLen, invoked,
                   threw, regs, sigLog, started>>
    /\ UNCHANGED <<warningVars, now, lockdownVars, fullscreenVars,
                   monitorHookVars>>

\* a click on "Submit Quiz Now", rendered while the dialog is open on the
\* last warning: onClick is the prop onForceSubmit
ClickSubmitNow ==
    /\ isOpen /\ isLastWarning
    /\ last' = Step("submitNow", <<>>, onForceSubmit # Undefined)
    /\ pressed' = (pressed \/ onForceSubmit # Undefined)
    /\ UNCHANGED <<violationCount, maxViolations, isOpen, onForceSubmit,
                   timeLeft, timers, timer, ticks, fired, entryLeft>>
    /\ UNCHANGED <<monitorAll, now, lockdownVars, fullscreenVars,
                   monitorHookVars>>

\* the component after its first render, closed and with no violation
WarningMounted(max, fn) ==
    /\ violationCount = 0
    /\ maxViolations = max
    /\ isOpen = FALSE
    /\ onForceSubmit = fn
    /\ timeLeft = CountdownStart
    /\ timers = {}
    /\ timer = 0
    /\ ticks = 0
    /\ fired = 0
    /\ entryLeft = CountdownStart
    /\ pressed = FALSE

\* ============================================== the lockdown controller
\* lockdown.ts.  One step is an exported function called by a client, or a
\* browser event with the handler the controller attached for it, if any.
MaxLockLog == 2          \* largest length of lockdownState.violations

\* the keyboard events of the environment: [key, ctrlKey, metaKey, altKey,
\* shiftKey]
Keys == {"c", "C", "Tab", "F12"}
KeyEvents == [key : Keys, ctrlKey : BOOLEAN, metaKey : BOOLEAN,
              altKey : BOOLEAN, shiftKey : BOOLEAN]

\* an entry of forbiddenCombinations; a flag the entry leaves out is FALSE
Combo(ctrl, alt, shift, key) ==
    [ctrl |-> ctrl, alt |-> alt, shift |-> shift, key |-> key]

forbiddenKeys == {"F12", "F11", "F5", "F1"}

forbiddenCombinations ==
    <<
        Combo(TRUE, FALSE, FALSE, "u"),
        Combo(TRUE, FALSE, FALSE, "U"),
        Combo(TRUE, FALSE, FALSE, "s"),
        Combo(TRUE, FALSE, FALSE, "S"),
        Combo(TRUE, FALSE, FALSE, "a"),
        Combo(TRUE, FALSE, FALSE, "A"),
        Combo(TRUE, FALSE, FALSE, "c"),
        Combo(TRUE, FALSE, FALSE, "C"),
        Combo(TRUE, FALSE, FALSE, "v"),
        Combo(TRUE, FALSE, FALSE, "V"),
        Combo(TRUE, FALSE, FALSE, "x"),
        Combo(TRUE, FALSE, FALSE, "X"),
        Combo(TRUE, FALSE, FALSE, "z"),
        Combo(TRUE, FALSE, FALSE, "Z"),
        Combo(TRUE, FALSE, FALSE, "y"),
        Combo(TRUE, FALSE, FALSE, "Y"),
        Combo(TRUE, FALSE, FALSE, "f"),
        Combo(TRUE, FALSE, FALSE, "F"),
        Combo(TRUE, FALSE, FALSE, "h"),
        Combo(TRUE, FALSE, FALSE, "H"),
        Combo(TRUE, FALSE, FALSE, "r"),
        Combo(TRUE, FALSE, FALSE, "R"),
        Combo(TRUE, FALSE, FALSE, "t"),
        Combo(TRUE, FALSE, FALSE, "T"),
        Combo(TRUE, FALSE, FALSE, "n"),
        Combo(TRUE, FALSE, FALSE, "N"),
        Combo(TRUE, FALSE, FALSE, "w"),
        Combo(TRUE, FALSE, FALSE, "W"),
        Combo(TRUE, FALSE, FALSE, "j"),
        Combo(TRUE, FALSE, FALSE, "J"),
        Combo(TRUE, FALSE, TRUE, "i"),
        Combo(TRUE, FALSE, TRUE, "I"),
        Combo(TRUE, FALSE, TRUE, "j"),
        Combo(TRUE, FALSE, TRUE, "J"),
        Combo(TRUE, FALSE, TRUE, "c"),
        Combo(TRUE, FALSE, TRUE, "C"),
        Combo(FALSE, TRUE, FALSE, "Tab"),
        Combo(FALSE, TRUE, FALSE, "F4")
    >>

\* String.prototype.toLowerCase on the key names in use
LowerCase ==
    ("A" :> "a") @@ ("C" :> "c") @@ ("F" :> "f") @@ ("H" :> "h")
    @@ ("I" :> "i") @@ ("J" :> "j") @@ ("N" :> "n") @@ ("Q" :> "q")
    @@ ("R" :> "r") @@ ("S" :> "s") @@ ("T" :> "t") @@ ("U" :> "u")
    @@ ("V" :> "v") @@ ("W" :> "w") @@ ("X" :> "x") @@ ("Y" :> "y")
    @@ ("Z" :> "z")
    @@ ("Tab" :> "tab") @@ ("F1" :> "f1") @@ ("F4" :> "f4")
    @@ ("F5" :> "f5") @@ ("F11" :> "f11") @@ ("F12" :> "f12")

toLowerCase(k) == IF k \in DOMAIN LowerCase THEN LowerCase[k] ELSE k

KeyEvent(key, ctrl, meta, alt, shift) ==
    [key |-> key, ctrlKey |-> ctrl, metaKey |-> meta, altKey |-> alt,
     shiftKey |-> shift]

ctrlMatch_CtrlOnly(combo, event) ==
    IF combo.ctrl THEN event.ctrlKey ELSE ~event.ctrlKey

ctrlMatch(combo, event) ==
    IF combo.ctrl THEN event.ctrlKey \/ event.metaKey
                  ELSE ~event.ctrlKey /\ ~event.metaKey

altMatch_Ignored(combo, event) == TRUE

altMatch(combo, event) == IF combo.alt THEN event.altKey ELSE ~event.altKey

shiftMatch(combo, event) ==
    IF combo.shift THEN event.shiftKey ELSE ~event.shiftKey

keyMatch(combo, event) == toLowerCase(combo.key) = toLowerCase(event.key)

ComboMatches(combo, event) ==
    /\ ctrlMatch(combo, event)
    /\ altMatch(combo, event)
    /\ shiftMatch(combo, event)
    /\ keyMatch(combo, event)

\* the indexes of the entries the for loop would accept
Matching(event) ==
    {i \in 1..Len(forbiddenCombinations) :
        ComboMatches(forbiddenCombinations[i], event)}

\* disableKeyboardShortcuts: the message it logs, or NoMessage when it
\* returns true; the loop stops at the first entry that matches
NoMessage == <<"none">>

disableKeyboardShortcuts(event) ==
    IF event.key \in forbiddenKeys
    THEN <<"key", event.key>>
    ELSE LET matching == Matching(event)
         IN  IF matching # {}
             THEN <<"combination", forbiddenCombinations[
                       CHOOSE i \in matching : \A j \in matching : i <= j]>>
             ELSE NoMessage

LockdownEvents == {"contextmenu", "keydown", "selectstart", "dragstart", "drop"}

\* what a handler did to the event it got
Outcome(prevented, stopped) ==
    [defaultPrevented |-> prevented, propagationStopped |-> stopped]

Untouched == Outcome(FALSE, FALSE)

\* disableKeyboardShortcuts on every event of the environment
\* (@@ <<>> makes TLC tabulate the function once)
Verdicts == [event \in KeyEvents |-> disableKeyboardShortcuts(event)] @@ <<>>

\* logViolation of lockdown.ts; the entry is stamped with the time the
\* clock last showed
lockdownLogViolation(message) ==
    lockdownState' = [lockdownState EXCEPT
        !.violations = Append(@, [timestamp |-> now, message |-> message])]

\* An event that disableContextMenu, disableTextSelection or disableDragDrop
\* handles: none of them logs.
Suppress(event, stopped) ==
    /\ last' = Step(event,
                    <<event, IF event \in lockListeners
                             THEN Outcome(TRUE, stopped) ELSE Untouched>>,
                    event \notin lockListeners)
    /\ UNCHANGED <<lockdownVars, now, monitorAll, warningVars, fullscreenVars,
                   monitorHookVars>>

ContextMenu == Suppress("contextmenu", TRUE)

SelectStart == Suppress("selectstart", FALSE)

DragStart == Suppress("dragstart", TRUE)

Drop == Suppress("drop", TRUE)

KeyDownOf(events) ==
    \E event \in events :
        LET message == IF "keydown" \in lockListeners
                       THEN Verdicts[event]
                       ELSE NoMessage
        IN  /\ IF message # NoMessage
               THEN /\ Len(lockdownState.violations) < MaxLockLog
                    /\ lockdownLogViolation(message)
               ELSE UNCHANGED lockdownState
            /\ last' = Step("keydown",
                            <<event, IF message # NoMessage
                                     THEN Outcome(TRUE, TRUE) ELSE Untouched>>,
                            message = NoMessage)
    /\ UNCHANGED <<lockListeners, bodyLocked, now, monitorAll, warningVars,
                   fullscreenVars, monitorHookVars>>

KeyDown == KeyDownOf(KeyEvents)

\* the statements of enableLockdown that can throw: the first
\* addEventListener (no document) and the first use of document.body
LockFailSteps == {1, 6}

enableLockdown_Restart(failAt, t) ==
    /\ lockListeners' = IF failAt = 1 THEN lockListeners ELSE LockdownEvents
    /\ bodyLocked' = IF failAt = 0 THEN TRUE ELSE bodyLocked
    /\ lockdownState' = IF failAt = 0
                        THEN [lockdownState EXCEPT !.isActive = TRUE,
                                                   !.startTime = t]
                        ELSE lockdownState
    /\ last' = Step("enableLockdown", <<lockdownState.isActive>>, failAt = 0)

enableLockdown(failAt, t) ==
    IF lockdownState.isActive
    THEN /\ UNCHANGED lockdownVars
         /\ last' = Step("enableLockdown", <<TRUE>>, TRUE)
    ELSE /\ lockListeners' = IF failAt = 1 THEN lockListeners
                                           ELSE LockdownEvents
         /\ bodyLocked' = IF failAt = 0 THEN TRUE ELSE bodyLocked
         /\ lockdownState' = IF failAt = 0
                             THEN [lockdownState EXCEPT !.isActive = TRUE,
                                                        !.startTime = t]
                             ELSE lockdownState
         /\ last' = Step("enableLockdown", <<FALSE>>, failAt = 0)

EnableLockdown ==
    /\ \E failAt \in {0} \cup LockFailSteps, t \in Clock :
        /\ enableLockdown(failAt, t)
        /\ now' = IF ~lockdownState.isActive /\ failAt = 0 THEN t ELSE now
    /\ UNCHANGED <<monitorAll, warningVars, fullscreenVars, monitorHookVars>>

disableLockdown ==
    IF ~lockdownState.isActive
    THEN /\ UNCHANGED lockdownVars
         /\ last' = Step("disableLockdown", <<FALSE>>, TRUE)
    ELSE /\ lockListeners' = {}
         /\ bodyLocked' = FALSE
         /\ lockdownState' = [lockdownState EXCEPT !.isActive = FALSE]
         /\ last' = Step("disableLockdown", <<TRUE>>, TRUE)

DisableLockdown ==
    /\ disableLockdown
    /\ UNCHANGED <<now, monitorAll, warningVars, fullscreenVars,
                   monitorHookVars>>

getLockdownState == lockdownState

clearLockdownViolations_Both ==
    /\ lockdownState' = [lockdownState EXCEPT !.violations = <<>>]
    /\ violations' = <<>>
    /\ UNCHANGED <<isActive, callbacks, startTime>>

\* clearViolations of lockdown.ts: it empties lockdownState.violations and
\* touches nothing of monitor.ts, whose clearViolations has the same name
clearLockdownViolations ==
    /\ lockdownState' = [lockdownState EXCEPT !.violations = <<>>]
    /\ UNCHANGED monitorVars

ClearLockdownViolations ==
    /\ clearLockdownViolations
    /\ last' = Step("clearLockdownViolations",
                    <<Len(lockdownState.violations)>>, TRUE)
    /\ UNCHANGED <<lockListeners, bodyLocked, now, monitorRest, warningVars,
                   fullscreenVars, monitorHookVars>>

\* the module state after lockdown.ts is loaded
LockdownLoaded ==
    /\ lockdownState = [isActive |-> FALSE, violations |-> <<>>,
                        startTime |-> 0]
    /\ lockListeners = {}
    /\ bodyLocked = FALSE

\* a promise that was never made
NoPromise == [kind |-> "none", value |-> FALSE]

\* no async function of the hook has been called
NoCall == [op |-> "none", at |-> "returned", ret |-> FALSE,
           promise |-> NoPromise]

\* the document is not in fullscreen and useLockdown has rendered once
HookMounted ==
    /\ fullscreenElement = FALSE
    /\ fsPending = {}
    /\ fsAnnounced = TRUE
    /\ lockCall = NoCall
    /\ hook = [isLockdownActive |-> FALSE, violations |-> <<>>,
               isFullscreenMode |-> FALSE]

\* ===================================== fullscreen and the useLockdown hook
\* lockdown.ts, lines 219-286, and the hook useLockdown.  The fullscreen
\* functions of the engine are inputs: which of the four forms exists and
\* what a call of it does.
FullscreenApis == {"standard", "webkit", "moz", "ms", "none"}

\* element.requestFullscreen() / document.exitFullscreen() return a promise
\* that fulfils or rejects, throw, or (engines before the promise form)
\* return undefined; the prefixed forms return or throw.
FullscreenCalls ==
    {<<"standard", o>> : o \in {"fulfils", "rejects", "throws", "returns"}}
        \cup {<<a, o>> : a \in {"webkit", "moz", "ms"},
                         o \in {"returns", "throws"}}
        \cup {<<"none", "absent">>}

Resolve(b) == [kind |-> "resolve", value |-> b]

requestFullscreen_NoCatch(api, outcome) ==
    IF outcome \in {"throws", "rejects"}
    THEN [kind |-> "reject", value |-> FALSE]
    ELSE IF api = "none" THEN Resolve(FALSE)
    ELSE IF api = "standard" THEN Resolve(outcome = "fulfils")
    ELSE Resolve(TRUE)

\* how the promise requestFullscreen() returns is settled.  On the standard
\* form then() resolves true and catch() resolves false; a call that throws,
\* and then() of the undefined an old engine returns, end in the outer catch.
requestFullscreen(api, outcome) ==
    IF api = "standard"
    THEN IF outcome = "fulfils" THEN Resolve(TRUE) ELSE Resolve(FALSE)
    ELSE IF api \in {"webkit", "moz", "ms"}
    THEN IF outcome = "returns" THEN Resolve(TRUE) ELSE Resolve(FALSE)
    ELSE Resolve(FALSE)

exitFullscreen(api, outcome) ==
    IF api = "standard"
    THEN IF outcome = "fulfils" THEN Resolve(TRUE) ELSE Resolve(FALSE)
    ELSE IF api \in {"webkit", "moz", "ms"}
    THEN IF outcome = "returns" THEN Resolve(TRUE) ELSE Resolve(FALSE)
    ELSE Resolve(FALSE)

isFullscreen == fullscreenElement

\* Whether the engine does what the call asked for: it did when the standard
\* promise fulfilled, it did not when the call threw, the promise rejected
\* or there is no function; a call that just returned tells nothing.
Grants(call) ==
    IF call[2] = "fulfils" THEN {TRUE}
    ELSE IF call[2] = "returns" THEN BOOLEAN
    ELSE {FALSE}

\* The names under which an engine dispatches one fullscreen change: the
\* standard name, a prefixed name, or both.  They are chosen per change: an
\* engine may keep its prefixed name for the changes its prefixed function
\* asked for.
EngineNames ==
    {{"fullscreenchange"}, {"webkitfullscreenchange"},
     {"fullscreenchange", "webkitfullscreenchange"}}

\* the document's fullscreen state becomes target; a change is announced
\* by events that are dispatched later
FullscreenBecomes(target) ==
    IF fullscreenElement = target
    THEN UNCHANGED <<fullscreenElement, fsPending, fsAnnounced>>
    ELSE /\ fullscreenElement' = target
         /\ fsPending' \in EngineNames
         /\ fsAnnounced' = FALSE

\* updateState of the hook: the three setState calls
updateState(state, fs) ==
    [isLockdownActive |-> state.isActive, violations |-> state.violations,
     isFullscreenMode |-> fs]

enableLockdownModeResult_NeedsFullscreen(success, promise) ==
    success /\ promise.kind = "resolve" /\ promise.value

\* what enableLockdownMode returns after its await: success, whatever the
\* awaited promise resolved with; false from the catch had it rejected
enableLockdownModeResult(success, promise) ==
    IF promise.kind = "reject" THEN FALSE ELSE success

\* enableLockdownMode up to its await: enableLockdown(), and when that
\* returned true the call of requestFullscreen(); otherwise it returns false
EnableLockdownMode ==
    /\ pc = "idle"
    /\ lockCall.at = "returned"
    /\ fsPending = {}
    /\ \E failAt \in {0} \cup LockFailSteps, t \in Clock,
          call \in FullscreenCalls :
        /\ enableLockdown(failAt, t)
        /\ now' = IF ~lockdownState.isActive /\ failAt = 0 THEN t ELSE now
        /\ IF last'.ret
           THEN /\ lockCall' = [op |-> "enableLockdownMode", at |-> "await",
                                ret |-> TRUE,
                                promise |-> requestFullscreen(call[1],
                                                              call[2])]
                /\ \E granted \in Grants(call) :
                      FullscreenBecomes(granted \/ fullscreenElement)
           ELSE /\ lockCall' = [op |-> "enableLockdownMode",
                                at |-> "returned", ret |-> FALSE,
                                promise |-> NoPromise]
                /\ UNCHANGED <<fullscreenElement, fsPending, fsAnnounced>>
    /\ UNCHANGED <<hook, monitorAll, warningVars,
                   monitorHookVars>>

\* enterFullscreen of the hook up to its await
EnterFullscreen ==
    /\ pc = "idle"
    /\ lockCall.at = "returned"
    /\ fsPending = {}
    /\ \E call \in FullscreenCalls :
        /\ lockCall' = [op |-> "enterFullscreen", at |-> "await",
                        ret |-> FALSE,
                        promise |-> requestFullscreen(call[1], call[2])]
        /\ \E granted \in Grants(call) :
              FullscreenBecomes(granted \/ fullscreenElement)
        /\ last' = Step("requestFullscreen", <<call[1], call[2]>>, TRUE)
    /\ UNCHANGED <<hook, now, monitorAll, warningVars, lockdownVars,
                   monitorHookVars>>

\* exitFullscreenMode of the hook up to its await; the standard promise
\* fulfils only when there is a fullscreen element to leave
ExitFullscreenMode ==
    /\ pc = "idle"
    /\ lockCall.at = "returned"
    /\ fsPending = {}
    /\ \E call \in FullscreenCalls :
        /\ call[2] = "fulfils" => fullscreenElement
        /\ lockCall' = [op |-> "exitFullscreenMode", at |-> "await",
                        ret |-> FALSE,
                        promise |-> exitFullscreen(call[1], call[2])]
        /\ \E granted \in Grants(call) :
              FullscreenBecomes(fullscreenElement /\ ~granted)
        /\ last' = Step("exitFullscreen", <<call[1], call[2]>>, TRUE)
    /\ UNCHANGED <<hook, now, monitorAll, warningVars, lockdownVars,
                   monitorHookVars>>

\* The async function of the hook goes on after its await: enableLockdownMode
\* calls updateState() and returns success; enterFullscreen and
\* exitFullscreenMode set isFullscreenMode and return what the promise
\* resolved with.  A rejected promise takes each to its catch.
ResumeHook ==
    /\ pc = "idle"
    /\ lockCall.at = "await"
    /\ LET settled == lockCall.promise
           ret == IF lockCall.op = "enableLockdownMode"
                  THEN enableLockdownModeResult(lockCall.ret, settled)
                  ELSE settled.kind = "resolve" /\ settled.value
       IN  /\ lockCall' = [lockCall EXCEPT !.at = "returned", !.ret = ret]
           /\ hook' = IF settled.kind # "resolve" THEN hook
                      ELSE IF lockCall.op = "enableLockdownMode"
                      THEN updateState(lockdownState, isFullscreen)
                      ELSE [hook EXCEPT !.isFullscreenMode = isFullscreen]
           /\ last' = Step(lockCall.op, <<settled.kind, settled.value>>, ret)
    /\ UNCHANGED <<fullscreenElement, fsPending, fsAnnounced, now, monitorAll,
                   warningVars, lockdownVars,
                   monitorHookVars>>

\* disableLockdownMode of the hook
DisableLockdownMode ==
    /\ pc = "idle"
    /\ disableLockdown
    /\ hook' = IF last'.ret THEN updateState(lockdownState', isFullscreen)
                            ELSE hook
    /\ UNCHANGED <<fullscreenElement, fsPending, fsAnnounced, lockCall, now,
                   monitorAll, warningVars,
                   monitorHookVars>>

\* the interval the hook sets while its isLockdownActive is true
PollLockdown ==
    /\ pc = "idle"
    /\ hook.isLockdownActive
    /\ hook' = updateState(lockdownState, isFullscreen)
    /\ last' = Step("updateState", <<>>, TRUE)
    /\ UNCHANGED <<fullscreenElement, fsPending, fsAnnounced, lockCall, now,
                   monitorAll, warningVars, lockdownVars,
                   monitorHookVars>>

\* the user leaves fullscreen (Escape)
LeaveFullscreen ==
    /\ pc = "idle"
    /\ fullscreenElement
    /\ fsPending = {}
    /\ FullscreenBecomes(FALSE)
    /\ last' = Step("escape", <<>>, TRUE)
    /\ UNCHANGED <<lockCall, hook, now, monitorAll, warningVars, lockdownVars,
                   monitorHookVars>>

\* The engine dispatches the last fullscreen change under one of its names:
\* the monitor's handler runs if initMonitor attached it under that name,
\* and the handler of the hook, attached under all four, sets
\* isFullscreenMode.
DispatchFullscreenChange ==
    /\ pc = "idle"
    /\ \E e \in fsPending, t \in Clock :
        /\ HandleSignal("fullscreenchange", <<isFullscreen>>,
                        IF e \in listeners
                        THEN handleFullscreenChange(isFullscreen, t)
                        ELSE Null,
                        IF ~isFullscreen /\ ~fsAnnounced
                        THEN "fullscreen_exit" ELSE "none", t)
        /\ fsPending' = fsPending \ {e}
    /\ fsAnnounced' = TRUE
    /\ hook' = [hook EXCEPT !.isFullscreenMode = isFullscreen]
    /\ UNCHANGED <<fullscreenElement, lockCall, monitorHookVars>>

\* ================================================ the hooks over the monitor
\* useSecurityMonitor and useViolationAlert of TeacherForm.tsx:252-388.  No
\* file of the repository calls them, so the components that do are inputs.
\* Every call of useSecurityMonitor is an instance with useState values of
\* its own: "page" is one a component holds and calls the functions of,
\* "alert" the one useViolationAlert makes at line 371, of which it keeps
\* violationCount and lastViolation only.  One step is one synchronous piece
\* of the event loop: a function of the hook called by its component, one
\* interval callback, one callback call of the monitor's forEach, or the
\* effects React runs after a commit; the setters one piece calls are
\* committed together.
DefaultAlertThreshold == 3     \* useViolationAlert(threshold: number = 3)

Instances == {"page", "alert"}
\* the instances whose startMonitoring, stopMonitoring and
\* clearViolationHistory some component can call
Callers == {"page"}
\* the thresholds a component passes to useViolationAlert
Thresholds == 0..MaxLog

\* the first render of both hooks: the useState initial values; the effects
\* of useSecurityMonitor find isMonitoring false and set nothing up.
\* effects: the isMonitoring the mounted effects last ran with, that is,
\* the instance's callback is subscribed and its interval is set.
\* asked (history): the instance's last successful call of startMonitoring
\* or stopMonitoring was startMonitoring.
MonitorHooksMounted(th) ==
    /\ monitorHook = [h \in Instances |->
                         [isMonitoring |-> FALSE, violations |-> <<>>,
                          violationCount |-> 0, lastViolation |-> Null,
                          effects |-> FALSE, asked |-> FALSE]]
    /\ alertTriggered = FALSE
    /\ threshold = th

getMonitorState ==
    [isActive |-> isActive, violations |-> violations,
     callbacks |-> callbacks, startTime |-> startTime]

\* updateState of instance h; state is what getMonitorState() returned and
\* lastV what getLastViolation() returned
useSecurityMonitor_updateState(h, state, lastV) ==
    [monitorHook[h] EXCEPT !.isMonitoring = state.isActive,
                           !.violations = state.violations,
                           !.violationCount = Len(state.violations),
                           !.lastViolation = lastV]

\* startMonitoring of an instance: initMonitor, then on success
\* setIsMonitoring(true) and updateState(), whose setIsMonitoring is the
\* later of the two
StartMonitoring ==
    /\ pc = "idle"
    /\ \E h \in Callers, failAt \in {0} \cup FailSteps, t \in Clock :
        /\ initMonitor(failAt, t)
        /\ IF ~isActive /\ failAt = 0 THEN now' = t ELSE t = now /\ now' = now
        /\ monitorHook' =
               IF last'.ret
               THEN [monitorHook EXCEPT ![h] =
                        [useSecurityMonitor_updateState(
                             h, getMonitorState', getLastViolation')
                         EXCEPT !.asked = TRUE]]
               ELSE monitorHook
    /\ started' = (started \/ last'.ret)
    /\ NoRound
    /\ UNCHANGED <<regs, sigLog, alertTriggered, threshold>>
    /\ UNCHANGED <<warningVars, lockdownVars, fullscreenVars>>

\* stopMonitoring of an instance: stopMonitor, then setIsMonitoring(false)
\* and updateState()
StopMonitoring ==
    /\ pc = "idle"
    /\ \E h \in Callers :
        /\ stopMonitor
        /\ monitorHook' =
               IF last'.ret
               THEN [monitorHook EXCEPT ![h] =
                        [useSecurityMonitor_updateState(
                             h, getMonitorState', getLastViolation')
                         EXCEPT !.asked = FALSE]]
               ELSE monitorHook
    /\ started' = (started /\ ~last'.ret)
    /\ NoRound
    /\ UNCHANGED <<now, regs, sigLog, alertTriggered, threshold>>
    /\ UNCHANGED <<warningVars, lockdownVars, fullscreenVars>>

\* clearViolationHistory of an instance: clearViolations, then updateState()
ClearViolationHistory ==
    /\ pc = "idle"
    /\ \E h \in Callers :
        /\ clearViolations
        /\ monitorHook' =
               [monitorHook EXCEPT ![h] =
                   useSecurityMonitor_updateState(
                       h, getMonitorState', getLastViolation')]
        /\ last' = Step("clearViolationHistory", <<h>>, TRUE)
    /\ sigLog' = <<>>
    /\ NoRound
    /\ UNCHANGED <<listeners, now, regs, started, alertTriggered, threshold>>
    /\ UNCHANGED <<warningVars, lockdownVars, fullscreenVars>>

\* React runs the two effects of an instance whose isMonitoring changed in
\* the last commit: the cleanups of the old ones (the unsubscribe closure,
\* clearInterval), then the new ones (onViolation and setInterval when
\* isMonitoring is true).
RunEffects ==
    /\ pc = "idle"
    /\ \E h \in Instances :
        /\ monitorHook[h].effects # monitorHook[h].isMonitoring
        /\ IF monitorHook[h].isMonitoring THEN onViolation(h)
                                          ELSE unsubscribe(h)
        /\ monitorHook' =
               [monitorHook EXCEPT ![h].effects = monitorHook[h].isMonitoring]
        /\ last' = Step("effects", <<h>>, monitorHook[h].isMonitoring)
    /\ NoRound
    /\ UNCHANGED <<listeners, now, regs, sigLog, started, alertTriggered,
                   threshold>>
    /\ UNCHANGED <<warningVars, lockdownVars, fullscreenVars>>

\* the callback of setInterval(updateState, 2000) of an instance
PollHook ==
    /\ pc = "idle"
    /\ \E h \in Instances :
        /\ monitorHook[h].effects
        /\ monitorHook' =
               [monitorHook EXCEPT ![h] =
                   useSecurityMonitor_updateState(
                       h, getMonitorState, getLastViolation)]
        /\ last' = Step("interval", <<h>>, TRUE)
    /\ NoRound
    /\ UNCHANGED <<monitorVars, listeners, now, regs, sigLog, started,
                   alertTriggered, threshold>>
    /\ UNCHANGED <<warningVars, lockdownVars, fullscreenVars>>

\* One iteration of the monitor's forEach whose callback is the one an
\* instance subscribed: it calls updateState() and returns.
InvokeHookCallback ==
    /\ pc = "notify"
    /\ LET k == notifyIdx
           nxt == AfterCallback(k, "return")
       IN  /\ k <= Len(callbacks)
           /\ callbacks[k] \in Instances
           /\ invoked' = Append(invoked, callbacks[k])
           /\ threw' = threw
           /\ monitorHook' =
                  [monitorHook EXCEPT ![callbacks[k]] =
                      useSecurityMonitor_updateState(
                          callbacks[k], getMonitorState, getLastViolation)]
           /\ last' = Step("callback", <<TRUE>>, TRUE)
           /\ IF nxt > notifyLen
              THEN pc' = "idle" /\ cur' = Null /\ notifyIdx' = 1
                   /\ notifyLen' = 0
              ELSE pc' = "notify" /\ cur' = cur /\ notifyIdx' = nxt
                   /\ notifyLen' = notifyLen
    /\ UNCHANGED <<monitorVars, listeners, now, preLen, regs, sigLog, started,
                   alertTriggered, threshold>>
    /\ UNCHANGED <<warningVars, lockdownVars, fullscreenVars>>

\* what the effect of useViolationAlert leaves alertTriggered at
useViolationAlert_effect(count) ==
    IF count >= threshold /\ ~alertTriggered THEN TRUE
    ELSE IF count < threshold /\ alertTriggered THEN FALSE
    ELSE alertTriggered

\* The effect of useViolationAlert, run after a commit that changed one of
\* violationCount, threshold and alertTriggered; it reads the violationCount
\* of the instance of line 371.
AlertEffect ==
    /\ pc = "idle"
    /\ alertTriggered' =
           useViolationAlert_effect(monitorHook["alert"].violationCount)
    /\ alertTriggered' # alertTriggered
    /\ last' = Step("alertEffect", <<>>, alertTriggered')
    /\ NoRound
    /\ UNCHANGED <<monitorVars, listeners, now, regs, sigLog, started,
                   monitorHook, threshold>>
    /\ UNCHANGED <<warningVars, lockdownVars, fullscreenVars>>

\* ----------------------------------------------------------- specification
Init ==
    /\ isActive = FALSE
    /\ violations = <<>>
    /\ callbacks = <<>>
    /\ startTime = 0
    /\ listeners = {}
    /\ now = 0
    /\ pc = "idle"
    /\ cur = Null
    /\ notifyIdx = 1
    /\ notifyLen = 0
    /\ preLen = 0
    /\ invoked = <<>>
    /\ threw = FALSE
    /\ regs = <<>>
    /\ sigLog = <<>>
    /\ started = FALSE
    /\ last = Step("load", <<>>, TRUE)
    /\ WarningMounted(DefaultMaxViolations, Undefined)
    /\ LockdownLoaded
    /\ HookMounted
    /\ MonitorHooksMounted(DefaultAlertThreshold)

\* The monitor under every browser signal, with few subscribers.
Next ==
    \/ Blur
    \/ Focus
    \/ VisibilityChange
    \/ FullscreenChange
    \/ Resize
    \/ InvokeCallback
    \/ InitMonitor
    \/ StopMonitor
    \/ OnViolationFew
    \/ Unsubscribe
    \/ ClearViolations

Spec == Init /\ [][Next]_vars

\* The callback registry under one kind of signal, with more subscribers.
NextRegistry ==
    \/ Blur
    \/ InvokeCallback
    \/ InitMonitor
    \/ StopMonitor
    \/ OnViolation
    \/ Unsubscribe
    \/ ClearViolations

SpecRegistry == Init /\ [][NextRegistry]_vars

\* The callback registry with subscribers that may call stopMonitor or an
\* unsubscribe closure from inside the notification round.
NextReentrant ==
    \/ Blur
    \/ InvokeCallback
    \/ InvokeStoppingCallback
    \/ InvokeUnsubscribingCallback
    \/ InitMonitor
    \/ StopMonitor
    \/ OnViolation
    \/ Unsubscribe

SpecReentrant == Init /\ [][NextReentrant]_vars

\* The warning dialog under any parent.  The monitor is running and holds a
\* log the steps of the dialog can be compared with.
SampleLog == <<Violation("focus_lost", 0), Violation("tab_switch", 0)>>

InitWarning ==
    /\ isActive = TRUE
    /\ violations = SampleLog
    /\ callbacks = <<>>
    /\ startTime = 0
    /\ listeners = AllEvents
    /\ now = 0
    /\ pc = "idle"
    /\ cur = Null
    /\ notifyIdx = 1
    /\ notifyLen = 0
    /\ preLen = 0
    /\ invoked = <<>>
    /\ threw = FALSE
    /\ regs = <<>>
    /\ sigLog = violations
    /\ started = TRUE
    /\ last = Step("load", <<>>, TRUE)
    /\ \E max \in 1..MaxThreshold, fn \in SubmitFns : WarningMounted(max, fn)
    /\ LockdownLoaded
    /\ HookMounted
    /\ MonitorHooksMounted(DefaultAlertThreshold)

NextWarning ==
    \/ Render
    \/ Tick
    \/ ClickAcknowledge
    \/ ClickSubmitNow

SpecWarning == InitWarning /\ [][NextWarning]_vars

\* The warning dialog with its default maxViolations, next to a monitor
\* that a client may stop.
InitCountdown ==
    /\ InitWarning
    /\ maxViolations = DefaultMaxViolations
    /\ onForceSubmit = "s1"

NextCountdown ==
    \/ Render
    \/ Tick
    \/ ClickAcknowledge
    \/ ClickSubmitNow
    \/ StopMonitor

SpecCountdown == InitCountdown /\ [][NextCountdown]_vars

\* The lockdown controller under the events it listens to.
NextLockdown ==
    \/ EnableLockdown
    \/ DisableLockdown
    \/ ContextMenu
    \/ KeyDown
    \/ SelectStart
    \/ DragStart
    \/ Drop
    \/ ClearLockdownViolations

SpecLockdown == Init /\ [][NextLockdown]_vars

\* The monitor and the lockdown controller side by side, each with one of
\* the events it listens to.
KeyDownFew == KeyDownOf({KeyEvent("c", TRUE, FALSE, FALSE, FALSE),
                         KeyEvent("c", FALSE, FALSE, FALSE, FALSE)})

NextBoth ==
    \/ Blur
    \/ InitMonitor
    \/ StopMonitor
    \/ ClearViolations
    \/ EnableLockdown
    \/ DisableLockdown
    \/ ContextMenu
    \/ KeyDownFew
    \/ ClearLockdownViolations

SpecBoth == Init /\ [][NextBoth]_vars

\* The monitor under the changes of the document's fullscreen state.
NextFullscreen ==
    \/ InitMonitor
    \/ StopMonitor
    \/ ClearViolations
    \/ EnterFullscreen
    \/ ExitFullscreenMode
    \/ ResumeHook
    \/ LeaveFullscreen
    \/ DispatchFullscreenChange

SpecFullscreen == Init /\ [][NextFullscreen]_vars

\* The hook over the lockdown controller and the document's fullscreen
\* state.
NextLockdownMode ==
    \/ EnableLockdown
    \/ EnableLockdownMode
    \/ DisableLockdownMode
    \/ EnterFullscreen
    \/ ExitFullscreenMode
    \/ ResumeHook
    \/ PollLockdown
    \/ LeaveFullscreen
    \/ DispatchFullscreenChange
    \/ KeyDownFew

SpecLockdownMode == Init /\ [][NextLockdownMode]_vars

\* The hooks over the monitor, next to another caller of initMonitor and
\* stopMonitor (a second component's useSecurityMonitor, or a direct call).
InitHooks ==
    /\ isActive = FALSE
    /\ violations = <<>>
    /\ callbacks = <<>>
    /\ startTime = 0
    /\ listeners = {}
    /\ now = 0
    /\ pc = "idle"
    /\ cur = Null
    /\ notifyIdx = 1
    /\ notifyLen = 0
    /\ preLen = 0
    /\ invoked = <<>>
    /\ threw = FALSE
    /\ regs = <<>>
    /\ sigLog = <<>>
    /\ started = FALSE
    /\ last = Step("load", <<>>, TRUE)
    /\ WarningMounted(DefaultMaxViolations, Undefined)
    /\ LockdownLoaded
    /\ HookMounted
    /\ \E th \in Thresholds : MonitorHooksMounted(th)

NextHooks ==
    \/ Blur
    \/ InvokeHookCallback
    \/ InitMonitor
    \/ StopMonitor
    \/ StartMonitoring
    \/ StopMonitoring
    \/ ClearViolationHistory
    \/ RunEffects
    \/ PollHook
    \/ AlertEffect

\* What is scheduled runs: React runs the effects of a commit, a set
\* interval fires, the forEach goes on to its next index.  Nothing obliges
\* the user or a component to take a step.
SpecHooks ==
    /\ InitHooks
    /\ [][NextHooks]_vars
    /\ WF_vars(RunEffects)
    /\ WF_vars(PollHook)
    /\ WF_vars(InvokeHookCallback)
    /\ WF_vars(AlertEffect)

TypeOK ==
    /\ isActive \in BOOLEAN
    /\ Len(violations) <= MaxLog
    /\ \A i \in 1..Len(violations) :
          violations[i].type \in ViolationTypes /\ violations[i].timestamp \in Times
    /\ \A i \in 1..Len(callbacks) : callbacks[i] \in Fns \cup Instances
    /\ startTime \in Times
    /\ listeners \subseteq AllEvents
    /\ pc \in {"idle", "notify"}
    /\ started = isActive
    /\ violationCount \in 0..MaxCount
    /\ maxViolations \in 1..MaxThreshold
    /\ isOpen \in BOOLEAN
    /\ onForceSubmit \in SubmitFns
    /\ timeLeft \in 0..CountdownStart
    /\ lockdownState.isActive \in BOOLEAN
    /\ Len(lockdownState.violations) <= MaxLockLog
    /\ lockListeners \subseteq LockdownEvents
    /\ pressed \in BOOLEAN
    /\ fullscreenElement \in BOOLEAN
    /\ fsPending \subseteq FullscreenEvents
    /\ fsAnnounced \in BOOLEAN
    /\ lockCall.op \in {"none", "enableLockdownMode", "enterFullscreen",
                       "exitFullscreenMode"}
    /\ lockCall.at \in {"await", "returned"}
    /\ lockCall.ret \in BOOLEAN
    /\ lockCall.promise.kind \in {"none", "resolve"}
    /\ lockCall.promise.value \in BOOLEAN
    /\ hook.isLockdownActive \in BOOLEAN
    /\ hook.isFullscreenMode \in BOOLEAN
    /\ \A h \in Instances : monitorHook[h].isMonitoring \in BOOLEAN
    /\ alertTriggered \in BOOLEAN
    /\ threshold \in Thresholds \cup {DefaultAlertThreshold}

\* ------------------------------------------------------------------ claims
\* the functions of the registrations whose closure has not been called, in
\* registration order
LiveFns(r) ==
    LET sel == SelectSeq(r, LAMBDA e : e.live)
    IN  [i \in 1..Len(sel) |-> sel[i].fn]

\* a notification has just been completed: the last callback of a round has
\* run, or a violation was logged with an empty registry
RoundDone ==
    /\ pc = "idle"
    /\ \/ last.op = "callback"
       \/ last.op \in SignalOps /\ last.ret

\* C1: while the monitor is inactive (no initMonitor has succeeded since
\* load or since the last stopMonitor), a blur, focus, visibilitychange,
\* fullscreenchange or resize signal appends no violation and invokes no
\* subscriber callback.
C1_InactiveSilent ==
    [][ ((~isActive \/ ~started) /\ last'.op \in SignalOps)
        => /\ violations' = violations
           /\ ~last'.ret
           /\ pc' = "idle"
           /\ invoked' = <<>> ]_vars

\* C1 witness: a blur reached the attached handler while the monitor was
\* inactive, with a subscriber registered and a log that is not empty.
C1_Witness ==
    /\ last.op = "blur"
    /\ ~isActive
    /\ "blur" \in listeners
    /\ callbacks # <<>>
    /\ violations # <<>>

\* C2: after N violation-triggering signals delivered while active, with no
\* clearViolations in between, getViolationCount() is N and
\* getViolationsInRange(t0, t_last) is the N violations in detection order.
C2_CountAndRange ==
    /\ getViolationCount("undefined") = Len(sigLog)
    /\ Len(sigLog) > 0
       => getViolationsInRange(sigLog[1].timestamp,
                               sigLog[Len(sigLog)].timestamp) = sigLog

\* C2 witness: two signals of different kinds detected at different times.
C2_Witness ==
    /\ pc = "idle"
    /\ Len(sigLog) = 2
    /\ sigLog[1].type # sigLog[2].type
    /\ sigLog[1].timestamp < sigLog[2].timestamp

\* C3: whenever a subscriber callback is about to be invoked with violation
\* v, getLastViolation() is v and getViolationCount() is one more than it was
\* when v was detected.
C3_AppendedBeforeNotify ==
    pc = "notify"
    => /\ getLastViolation = cur
       /\ getViolationCount("undefined") = preLen + 1

\* C3 witness: the second callback of a round is about to be invoked for the
\* second violation of the log.
C3_Witness ==
    /\ pc = "notify"
    /\ notifyIdx = 2
    /\ preLen = 1

\* C4: when a violation has been notified, the callbacks invoked for it are
\* those registered through onViolation and not yet unsubscribed, each once,
\* in registration order.
C4_LiveInvokedInOrder ==
    RoundDone => invoked = LiveFns(regs)

\* C5: a callback that throws changes neither isActive, the log nor the
\* registry, the violation stays the last entry of the log, the forEach goes
\* on with the next callback, and at the end of the round every callback of
\* the registry has been invoked.
C5_ThrowIsolated ==
    [][ /\ (last'.op = "callback" /\ ~last'.ret)
           => /\ UNCHANGED <<isActive, violations, callbacks>>
              /\ Len(violations') > 0
              /\ violations'[Len(violations')] = cur
              /\ notifyIdx < notifyLen
                 => pc' = "notify" /\ notifyIdx' = notifyIdx + 1
        /\ (pc = "notify" /\ pc' = "idle") => invoked' = callbacks' ]_vars

\* C5 witness: a round of two callbacks is over, the first threw and the
\* second was invoked and returned.
C5_Witness ==
    /\ pc = "idle"
    /\ last.op = "callback"
    /\ last.ret
    /\ threw
    /\ Len(invoked) = 2

\* C6: initMonitor while active returns true and changes none of isActive,
\* startTime, the log and the registry; so does stopMonitor while inactive.
C6_Idempotent ==
    [][ /\ (last'.op = "initMonitor" /\ isActive)
           => /\ last'.ret
              /\ UNCHANGED <<isActive, startTime, violations, callbacks>>
        /\ (last'.op = "stopMonitor" /\ ~isActive)
           => /\ last'.ret
              /\ UNCHANGED <<isActive, startTime, violations, callbacks>> ]_vars

\* C6 witness: initMonitor was called on an active monitor that has a
\* subscriber and a violation, at a time later than startTime.
C6_Witness ==
    /\ last.op = "initMonitor"
    /\ last.arg = <<TRUE>>
    /\ startTime < now
    /\ violations # <<>>
    /\ callbacks # <<>>

\* C7: stopMonitor changes neither the log nor the registry, and initMonitor
\* (the restart) does not change them either.
C7_StopKeepsLog ==
    [][ (last'.op \in {"stopMonitor", "initMonitor"})
        => violations' = violations /\ callbacks' = callbacks ]_vars

\* C7 witness: the monitor has just been restarted with two violations of
\* different kinds, recorded before the stop, in its log.
C7_Witness ==
    /\ last.op = "initMonitor"
    /\ last.arg = <<FALSE>>
    /\ last.ret
    /\ Len(violations) = 2
    /\ violations[1].type # violations[2].type
    /\ callbacks # <<>>

\* C8: every step other than clearViolations leaves the old log a prefix of
\* the new one; clearViolations empties the log and changes none of
\* isActive, startTime and the registry.
C8_MonotonicLog ==
    [][ /\ last'.op # "clearViolations" => IsPrefix(violations, violations')
        /\ last'.op = "clearViolations"
           => /\ violations' = <<>>
              /\ UNCHANGED <<isActive, startTime, callbacks>> ]_vars

\* C8 witness: a log of two violations was cleared on an active monitor
\* that has a subscriber and a startTime other than the initial one.
C8_Witness ==
    /\ last.op = "clearViolations"
    /\ last.arg = <<2>>
    /\ isActive
    /\ startTime = 1
    /\ callbacks # <<>>

C10_Classification ==
    [][ isActive
        => /\ last'.op = "blur"
              => violations' = Append(violations, Violation("focus_lost", now'))
           /\ last'.op = "visibilitychange"
              => violations' = IF last'.arg[1]
                               THEN Append(violations,
                                           Violation("tab_switch", now'))
                               ELSE violations
           /\ last'.op = "resize"
              => violations' = IF last'.arg[1] \/ last'.arg[2]
                               THEN Append(violations,
                                           Violation("window_resize", now'))
                               ELSE violations
           /\ last'.op = "focus" => violations' = violations ]_vars

\* C10 witness: a resize with only the height above the screen's was logged
\* as window_resize.
C10_Witness ==
    /\ last.op = "resize"
    /\ last.arg = <<FALSE, TRUE>>
    /\ last.ret
    /\ violations[Len(violations)].type = "window_resize"

C12_ForcedOnceAtT ==
    isOpen /\ isLastWarning /\ entryLeft = CountdownStart
        => /\ fired <= 1
           /\ fired = 1 => ticks >= CountdownStart

\* C13: while the dialog is closed no step is a call of onForceSubmit by the
\* interval callback, however far the countdown had run when it was closed.
C13_ClosedNeverFires ==
    [][ ~isOpen => ~(last'.op = "tick" /\ last'.ret) ]_vars

\* C13 witness: the dialog was closed on the last warning after some ticks
\* and before the countdown ended, with onForceSubmit defined.
C13_Witness ==
    /\ last.op = "render"
    /\ ~isOpen
    /\ isLastWarning
    /\ onForceSubmit # Undefined
    /\ ticks > 0
    /\ timeLeft > 0
    /\ fired = 0

\* C14: at most one interval is live, and it is the one the mounted effect
\* set; so the interval callbacks of one second decrement timeLeft once.
C14_OneTimer ==
    /\ Cardinality(timers) <= 1
    /\ timers \subseteq {timer}

\* C14 witness: the effect ran again (onForceSubmit changed) while the
\* countdown was running, and an interval is live.
C14_Witness ==
    /\ last.op = "render"
    /\ last.ret
    /\ isOpen /\ isLastWarning
    /\ ticks > 0
    /\ timeLeft > 0
    /\ timers # {}

\* C15: a live interval implies that the dialog is open and violationCount
\* >= maxViolations; with maxViolations = 3 the levels at counts 1, 2, 3 are
\* warning, danger, critical and no interval is live below count 3.
C15_CountdownOnlyCritical ==
    /\ timers # {} => isOpen /\ violationCount >= maxViolations
    /\ maxViolations = DefaultMaxViolations /\ violationCount \in 1..3
          => getWarningLevel(violationCount, maxViolations)
                 = <<"warning", "danger", "critical">>[violationCount]
    /\ maxViolations = DefaultMaxViolations /\ violationCount < 3
          => timers = {}

\* C15 witness: with maxViolations = 3 the third violation was rendered on
\* the open dialog and an interval is live that has not ticked yet.
C15_Witness ==
    /\ maxViolations = DefaultMaxViolations
    /\ violationCount = 3
    /\ isOpen
    /\ last.op = "render"
    /\ ticks = 0
    /\ timers # {}

\* C16: no step of the component (a render with its effects, an interval
\* callback, a click on either button) changes the monitor's log, hence none
\* changes getViolationCount.
C16_WarningKeepsLog ==
    [][ last'.op \in WarningOps
        => /\ violations' = violations
           /\ getViolationCount("undefined")' = getViolationCount("undefined")
      ]_vars

\* C16 witness: "I Understand - Continue Quiz" was clicked while the
\* monitor's log held violations.
C16_Witness ==
    /\ last.op = "acknowledge"
    /\ violations # <<>>
    /\ getViolationCount("undefined") = Len(SampleLog)

\* ------------------------------------- claims: the lockdown controller
\* C17: enableLockdown while active returns true and leaves isActive,
\* startTime, the log, the listeners and the body style as they are;
\* disableLockdown while inactive returns true and leaves them as they are.
C17_EnableDisableNoOp ==
    [][ /\ last'.op = "enableLockdown" /\ lockdownState.isActive
           => last'.ret /\ UNCHANGED lockdownVars
        /\ last'.op = "disableLockdown" /\ ~lockdownState.isActive
           => last'.ret /\ UNCHANGED lockdownVars ]_vars

\* C17 witness: enableLockdown returned true on a controller that was
\* active and had logged a key.
C17_Witness ==
    /\ last.op = "enableLockdown"
    /\ last.arg = <<TRUE>>
    /\ last.ret
    /\ lockdownState.isActive
    /\ lockdownState.violations # <<>>

CtrlC == KeyEvent("c", TRUE, FALSE, FALSE, FALSE)
CtrlShiftC == KeyEvent("C", TRUE, FALSE, FALSE, TRUE)
AltTab == KeyEvent("Tab", FALSE, FALSE, TRUE, FALSE)
PlainC == KeyEvent("c", FALSE, FALSE, FALSE, FALSE)
PlainTab == KeyEvent("Tab", FALSE, FALSE, FALSE, FALSE)
MetaC == KeyEvent("c", FALSE, TRUE, FALSE, FALSE)

\* the keydown just handed to disableKeyboardShortcuts, and what became of it
KeyHandled == last.op = "keydown" /\ "keydown" \in lockListeners

\* C18: with lockdown active, Ctrl+C, Ctrl+Shift+C and Alt+Tab are
\* suppressed and plain C and plain Tab are not.
C18_DenylistCases ==
    KeyHandled /\ lockdownState.isActive
        => /\ last.arg[1] \in {CtrlC, CtrlShiftC, AltTab}
              => last.arg[2] = Outcome(TRUE, TRUE)
           /\ last.arg[1] \in {PlainC, PlainTab} => last.arg[2] = Untouched

\* C18 witness: Ctrl+Shift+C was suppressed while lockdown was active.
C18_Witness ==
    /\ KeyHandled
    /\ lockdownState.isActive
    /\ last.arg[1] = CtrlShiftC
    /\ last.arg[2] = Outcome(TRUE, TRUE)

\* the event's modifiers are exactly those of a denylist entry with its key:
\* none for a forbidden single key, the entry's flags (and no meta) for a
\* combination
ExactEntry(event) ==
    \/ /\ event.key \in forbiddenKeys
       /\ ~event.ctrlKey /\ ~event.metaKey /\ ~event.altKey /\ ~event.shiftKey
    \/ \E i \in 1..Len(forbiddenCombinations) :
          LET combo == forbiddenCombinations[i]
          IN  /\ toLowerCase(combo.key) = toLowerCase(event.key)
              /\ combo.ctrl = event.ctrlKey
              /\ ~event.metaKey
              /\ combo.alt = event.altKey
              /\ combo.shift = event.shiftKey

\* a forbidden single key under any modifiers, or a combination with the
\* event's key whose ctrl flag is (ctrlKey or metaKey) and whose alt and
\* shift flags are the event's
DeniedEntry(event) ==
    \/ event.key \in {"F12", "F11", "F5", "F1"}
    \/ \E i \in 1..Len(forbiddenCombinations) :
          LET combo == forbiddenCombinations[i]
          IN  /\ toLowerCase(combo.key) = toLowerCase(event.key)
              /\ combo.ctrl = (event.ctrlKey \/ event.metaKey)
              /\ combo.alt = event.altKey
              /\ combo.shift = event.shiftKey

\* C19 as stated: a keydown is suppressed only when its modifier set is
\* exactly that of a denylist entry with its key; a suppressed one has
\* default and propagation cancelled and adds one log entry; any other is
\* neither cancelled nor logged.
C19_ExactModifiers ==
    [][ last'.op = "keydown" /\ "keydown" \in lockListeners
        => IF last'.arg[2] # Untouched
           THEN /\ ExactEntry(last'.arg[1])
                /\ last'.arg[2] = Outcome(TRUE, TRUE)
                /\ Len(lockdownState'.violations)
                       = Len(lockdownState.violations) + 1
           ELSE lockdownState' = lockdownState ]_vars

\* C19, amended: a keydown is suppressed exactly when its key is F1, F5, F11
\* or F12, whatever the modifiers, or a denylist combination has its key
\* (letters case-insensitively), the same alt and shift flags, and a ctrl
\* flag equal to (ctrlKey or metaKey); a suppressed one has default and
\* propagation cancelled and adds one log entry; any other is neither
\* cancelled nor logged.
C19_CtrlOrMeta ==
    [][ last'.op = "keydown" /\ "keydown" \in lockListeners
        => IF DeniedEntry(last'.arg[1])
           THEN /\ last'.arg[2] = Outcome(TRUE, TRUE)
                /\ Len(lockdownState'.violations)
                       = Len(lockdownState.violations) + 1
                /\ SubSeq(lockdownState'.violations, 1,
                          Len(lockdownState.violations))
                       = lockdownState.violations
           ELSE /\ last'.arg[2] = Untouched
                /\ lockdownState' = lockdownState ]_vars

\* C19 witness: Meta+C, whose modifier set is that of no denylist entry,
\* was suppressed and logged as the combination Ctrl+C.
C19_Witness ==
    /\ KeyHandled
    /\ last.arg[1] = MetaC
    /\ last.arg[2] = Outcome(TRUE, TRUE)
    /\ lockdownState.violations # <<>>
    /\ lockdownState.violations[Len(lockdownState.violations)].message
           = <<"combination", Combo(TRUE, FALSE, FALSE, "c")>>

\* C20: while lockdown is active, every event a handler of the controller
\* suppressed (contextmenu, keydown, selectstart, dragstart, drop) adds
\* exactly one entry to lockdownState.violations.
C20_SuppressedIsLogged ==
    [][ /\ last'.op \in LockdownEvents
        /\ lockdownState.isActive
        /\ last'.arg[2].defaultPrevented
        => Len(lockdownState'.violations)
               = Len(lockdownState.violations) + 1 ]_vars

\* ------------------------- claims: the monitor next to the lockdown
MonitorOps == {"initMonitor", "stopMonitor", "clearViolations", "blur"}
LockdownOps ==
    {"enableLockdown", "disableLockdown", "clearLockdownViolations"}
        \cup LockdownEvents

\* C21: enableLockdown, disableLockdown, the lockdown's clearViolations and
\* every event a suppressor handles leave the monitor's isActive, log and
\* callbacks as they are; initMonitor, stopMonitor, the monitor's
\* clearViolations and every logged violation leave the lockdown's isActive
\* and log as they are.
C21_Independent ==
    [][ /\ last'.op \in LockdownOps
           => UNCHANGED <<isActive, violations, callbacks>>
        /\ last'.op \in MonitorOps
           => /\ lockdownState'.isActive = lockdownState.isActive
              /\ lockdownState'.violations = lockdownState.violations ]_vars

\* C21 witness: the lockdown's log was cleared while both were active and
\* the monitor's log held a violation.
C21_Witness ==
    /\ last.op = "clearLockdownViolations"
    /\ last.arg # <<0>>
    /\ isActive
    /\ lockdownState.isActive
    /\ violations # <<>>

\* ----------------------------------------- claims: the monitor, continued
\* C24: the log never holds a violation of kind visibility_change, so
\* getViolationCount('visibility_change') is 0; a visibility transition is
\* logged as tab_switch or not at all.
C24_NoVisibilityChange ==
    /\ \A i \in 1..Len(violations) : violations[i].type # "visibility_change"
    /\ getViolationCount("visibility_change") = 0
    /\ last.op = "visibilitychange" /\ last.ret
          => getLastViolation.type = "tab_switch"

\* C24 witness: the page became hidden while the monitor was active and a
\* violation was logged for it.
C24_Witness ==
    /\ last.op = "visibilitychange"
    /\ last.arg = <<TRUE>>
    /\ last.ret
    /\ getViolationCount("tab_switch") > 0

\* the entries of seq at the indexes in I, in the order of seq
RECURSIVE EntriesAt(_, _)
EntriesAt(seq, I) ==
    IF seq = <<>> THEN <<>>
    ELSE LET n == Len(seq)
             before == EntriesAt(SubSeq(seq, 1, n - 1), I)
         IN  IF n \in I THEN Append(before, seq[n]) ELSE before

\* C25: getViolationCount() is the log's length; getViolationCount(kind) is
\* the number of entries of that kind, and the counts of the five kinds add
\* up to the length; getLastViolation() is null exactly when the log is
\* empty and the last entry otherwise; getViolationsInRange(s, e) is the
\* entries with s <= timestamp <= e in log order.
C25_QueriesAgree ==
    /\ getViolationCount("undefined") = Len(violations)
    /\ \A kind \in ViolationTypes :
          getViolationCount(kind)
              = Cardinality({i \in 1..Len(violations) :
                                violations[i].type = kind})
    /\ getViolationCount("focus_lost") + getViolationCount("tab_switch")
           + getViolationCount("visibility_change")
           + getViolationCount("fullscreen_exit")
           + getViolationCount("window_resize") = Len(violations)
    /\ (getLastViolation = Null) = (violations = <<>>)
    /\ violations # <<>> => getLastViolation = violations[Len(violations)]
    /\ \A s \in Times, e \in Times :
          getViolationsInRange(s, e)
              = EntriesAt(violations,
                          {i \in 1..Len(violations) :
                              /\ s <= violations[i].timestamp
                              /\ violations[i].timestamp <= e})

\* C25 witness: the log holds two violations of different kinds and times,
\* and the range that ends before the second holds only the first.
C25_Witness ==
    /\ Len(violations) = 2
    /\ violations[1].type # violations[2].type
    /\ violations[1].timestamp < violations[2].timestamp
    /\ getViolationsInRange(0, 0) = <<violations[1]>>
    /\ getLastViolation = violations[2]

\* C31: an initMonitor whose registration throws returns false and leaves
\* isActive false and the log, the callbacks and startTime as they are; a
\* signal delivered while the monitor is inactive appends nothing, also to
\* a handler the failed call left attached; and whenever the monitor is
\* active all eight listeners are attached, so never only part of the
\* observers is effective.
C31_FailedInitInert ==
    [][ /\ last'.op = "initMonitor" /\ ~last'.ret
           => /\ ~isActive'
              /\ UNCHANGED <<isActive, violations, callbacks, startTime>>
              /\ pc' = "idle"
        /\ ~isActive /\ last'.op \in SignalOps
           => /\ violations' = violations
              /\ ~last'.ret
        /\ isActive' => listeners' = AllEvents
      ]_vars

\* C31 witness: initMonitor failed at its first registration on document,
\* leaving the two window listeners attached, and a blur then reached the
\* attached handler and was not logged.
C31_Witness ==
    /\ last.op = "blur"
    /\ ~last.ret
    /\ ~isActive
    /\ ~started
    /\ listeners = {"blur", "focus"}
    /\ violations = <<>>

\* C26: whenever a subscriber callback is invoked the monitor's isActive is
\* true, also when an earlier callback of the same round called
\* stopMonitor.
C26_CallbackOnlyWhileActive ==
    [][last'.op = "callback" /\ last'.arg = <<TRUE>> => isActive]_vars

\* C32: when a round of notification is over, every registration of a
\* function of its own whose closure has not been called was invoked exactly
\* once in the round, also when callbacks of the round called closures.
C32_OthersStillInvoked ==
    (/\ RoundDone
     /\ \A i, j \in 1..Len(regs) : regs[i].fn = regs[j].fn => i = j)
        => \A i \in 1..Len(regs) :
              regs[i].live
                  => Cardinality({j \in 1..Len(invoked) :
                                     invoked[j] = regs[i].fn}) = 1

\* C27: a fullscreen-change event appends fullscreen_exit only when it is
\* the first event of a change from fullscreen to no fullscreen; a further
\* event for the same exit appends nothing.
C27_OneViolationPerExit ==
    [][last'.op = "fullscreenchange" /\ last'.ret
          => ~isFullscreen' /\ ~fsAnnounced]_vars

\* ------------------------------------- claims: fullscreen and the hook
\* C22 as stated: every enableLockdown step that leaves the five
\* suppressors attached returns true, and every one that returns true has
\* requested fullscreen in the same step.
C22_EnableRequestsFullscreen ==
    [][last'.op = "enableLockdown"
          => /\ lockListeners' = LockdownEvents => last'.ret
             /\ last'.ret => /\ lockCall'.op = "enableLockdownMode"
                             /\ lockCall'.at = "await"]_vars

\* C22 amended: enableLockdown returns true exactly when lockdown is active
\* afterwards; a step of it that returns false requests no fullscreen and
\* suspends no call; enableLockdownMode is suspended on
\* requestFullscreen's promise only after enableLockdown returned true; and
\* when it goes on it returns true whatever the promise resolved with,
\* leaving the lockdown as it is and copying it into the hook.
C22_FullscreenBestEffort ==
    [][ /\ last'.op = "enableLockdown"
           => /\ last'.ret = lockdownState'.isActive
              /\ ~last'.ret
                    => /\ UNCHANGED <<fullscreenElement, fsPending>>
                       /\ lockCall'.at = "await" => UNCHANGED lockCall
              /\ lockCall.at = "returned" /\ lockCall'.at = "await"
                    => /\ last'.ret
                       /\ lockCall'.op = "enableLockdownMode"
                       /\ lockCall'.promise.kind = "resolve"
        /\ last'.op = "enableLockdownMode"
           => /\ last'.ret
              /\ lockCall'.ret
              /\ UNCHANGED lockdownVars
              /\ hook'.isLockdownActive = lockdownState.isActive
      ]_vars

\* C22 witness: enableLockdownMode has returned true with lockdown active
\* after its fullscreen request resolved false and the document is not in
\* fullscreen.
C22_Witness ==
    /\ last.op = "enableLockdownMode"
    /\ last.arg = <<"resolve", FALSE>>
    /\ last.ret
    /\ lockdownState.isActive
    /\ ~isFullscreen

\* C23: the promise of requestFullscreen and of exitFullscreen is resolved
\* with a boolean, never rejected: with false when no form of the function
\* exists, when the call throws and when the standard promise rejects, with
\* true when the standard promise fulfils; so the await of the hook never
\* throws and the hook returns that boolean.
C23_FullscreenSettlesBoolean ==
    /\ lockCall.promise # NoPromise
          => /\ lockCall.promise.kind = "resolve"
             /\ lockCall.promise.value \in BOOLEAN
    /\ last.op \in {"requestFullscreen", "exitFullscreen"}
          => /\ lockCall.at = "await"
             /\ lockCall.promise.kind = "resolve"
             /\ last.arg[1] = "none" \/ last.arg[2] \in {"throws", "rejects"}
                   => lockCall.promise = Resolve(FALSE)
             /\ last.arg = <<"standard", "fulfils">>
                   => lockCall.promise = Resolve(TRUE)
    /\ last.op \in {"enterFullscreen", "exitFullscreenMode"}
          => /\ last.arg[1] = "resolve"
             /\ last.ret = last.arg[2]

\* C23 witness: the standard requestFullscreen was called and its promise
\* rejected; the promise of the wrapper is resolved with false.
C23_Witness ==
    /\ last.op = "requestFullscreen"
    /\ last.arg = <<"standard", "rejects">>
    /\ lockCall.promise = Resolve(FALSE)
    /\ ~isFullscreen

\* ---------------------------------- claims: the warning dialog, continued
\* C28: while the dialog stays open on the last warning, the interval
\* callback calls onForceSubmit at most once, whatever the parent renders
\* after the countdown reached zero.
C28_NoSecondForcedSubmit ==
    isOpen /\ isLastWarning => fired <= 1

\* C29: whenever the dialog is opened on the last warning the countdown
\* starts at 10, so the interval callback does not call onForceSubmit before
\* 10 ticks of that episode.
C29_FullCountdownEachEntry ==
    isOpen /\ isLastWarning
        => /\ entryLeft = CountdownStart
           /\ fired > 0 => ticks >= CountdownStart

\* C33: while the dialog stays open on the last warning, an interval
\* callback that runs after "Submit Quiz Now" has called onForceSubmit does
\* not call it again.
C33_NoTimerCallAfterButton ==
    [][pressed /\ isOpen /\ isLastWarning /\ last'.op = "tick"
          => ~last'.ret]_vars

\* C30: stopMonitor leaves timeLeft and the interval as they are, and an
\* interval callback decrements timeLeft, or at prev <= 1 calls
\* onForceSubmit, whether the monitor is active or not; so a countdown that
\* began at 10 still calls onForceSubmit at tick 10 after stopMonitor.
C30_StopKeepsCountdown ==
    [][ /\ last'.op = "stopMonitor"
           => UNCHANGED <<timeLeft, timers, timer, ticks, fired>>
        /\ last'.op = "tick"
           => /\ timeLeft' = IF timeLeft <= 1 THEN 0 ELSE timeLeft - 1
              /\ last'.ret = (timeLeft <= 1 /\ onForceSubmit # Undefined)
              /\ timeLeft = 1 /\ entryLeft = CountdownStart
                    => ticks' = CountdownStart
        /\ isOpen' /\ isLastWarning' /\ timeLeft' > 0 => timers' # {}
      ]_vars

\* C30 witness: the monitor was stopped while the countdown was running; the
\* interval is still live and timeLeft is where the ticks left it.
C30_Witness ==
    /\ last.op = "stopMonitor"
    /\ last.arg = <<TRUE>>
    /\ ~isActive
    /\ isOpen /\ isLastWarning
    /\ ticks > 0
    /\ timers # {}
    /\ timeLeft = CountdownStart - ticks

\* ------------------------------------- claims: the hooks over the monitor
\* the instance shows the monitor's log as it is now
Reflects(h) ==
    /\ monitorHook[h].violationCount = Len(violations)
    /\ monitorHook[h].lastViolation = getLastViolation

\* C34: once the monitor's violation count has reached a threshold of at
\* least 1 (and for as long as it stays there), useViolationAlert
\* eventually reports shouldAlert = true, and again and again its
\* violationCount equals the monitor's getViolationCount(), whoever started
\* the monitor.
C34_AlertEventuallyRaised ==
    /\ (threshold >= 1 /\ getViolationCount("undefined") >= threshold)
           ~> (alertTriggered \/ getViolationCount("undefined") < threshold)
    /\ []<>(monitorHook["alert"].violationCount
                = getViolationCount("undefined"))

\* C35: in every state the violationCount of an instance is the length of
\* its violations snapshot; and while the monitor is active after an
\* instance called startMonitoring, the instance eventually shows the
\* monitor's log: its violationCount is the log's length and its
\* lastViolation is getLastViolation().
C35_HookReflectsLog ==
    /\ [](\A h \in Instances :
             monitorHook[h].violationCount = Len(monitorHook[h].violations))
    /\ (monitorHook["page"].asked /\ isActive)
           ~> (Reflects("page") \/ ~isActive)

====
